---- MODULE Spec2Model ----
(***************************************************************************)
(* A model of the 2d-to-3d converter: the grid-to-solid mesher              *)
(* (MeshGenerator.heightmap_to_mesh), the binary STL serializer             *)
(* (STLWriter), the multi-material converter, the conversion entry points   *)
(* with the dicts they return, and the HTTP adapter.                        *)
(*                                                                         *)
(* Lengths are integers in a fixed unit, so that every product and cross    *)
(* product of the source is computed exactly.  Vertex and face indices are  *)
(* the source's 0-based indices; a TLA+ sequence holds index k at k+1.      *)
(***************************************************************************)
EXTENDS Integers, Sequences, FiniteSets, Bags, TLC

VARIABLES
    height_data,    \* heightmap_to_mesh: the grid [rows, cols, at]
    pixel_size,     \* heightmap_to_mesh: the cell size
    base_height,    \* heightmap_to_mesh: the base elevation
    vertices,       \* the mesh's vertex sequence
    faces,          \* the mesh's face sequence
    outcome,        \* how the call ended: "none", "mesh" or "error"
    mpc,            \* where the mesh stands: "idle", "called", "returned", "given"
    stl_file,       \* write_stl: the bytes written to the destination so far
    stl_written,    \* write_stl: the faces the loop has written
    spc,            \* position of the write_stl call: "idle", "ready", "writing", "closed"
    colors,         \* write_multi_material_stl: the material id of each face
    todo,           \* write_multi_material_stl: unique_colors still to visit
    img_array,      \* MultiMaterialConverter: the grayscale image [rows, cols, at]
    mats,           \* MultiMaterialConverter.convert: <<mat1, mat2>> once separated
    files,          \* the dict a multi-material call returns, in insertion order
    fs,             \* the file system: path -> bytes
    xpc,            \* position of the multi-material call
    req,            \* the HTTP requests in flight: id -> [endpoint, payload, pc, ...]
    upload_folder,  \* UPLOAD_FOLDER: path -> content
    entry,          \* a conversion entry point called directly: [name, height, base]
    result          \* the dict that entry point returned: key -> value

meshVars == <<height_data, pixel_size, base_height, vertices, faces, outcome, mpc>>
stlVars == <<stl_file, stl_written, spc>>

multiVars == <<colors, todo, img_array, mats, files, fs, xpc>>

httpVars == <<req, upload_folder>>

entryVars == <<entry, result>>

vars == <<meshVars, stlVars, multiVars, httpVars, entryVars>>

\* ------------------------------------------------------------------ bounds
MaxRows == 3
MaxCols == 3
MaxHeight == 1
MaxRaised == 2
MaxBase == 1
MaxPixel == 2
MaxCoord == 2
MaxFaces == 2
MaxTagged == 3
MaxColor == 1
MaxPixels == 4

\* ------------------------------------------------------------ vector algebra
Sub(a, b) == <<a[1] - b[1], a[2] - b[2], a[3] - b[3]>>

Cross(a, b) ==
    <<a[2] * b[3] - a[3] * b[2],
      a[3] * b[1] - a[1] * b[3],
      a[1] * b[2] - a[2] * b[1]>>

NormSq(a) == a[1] * a[1] + a[2] * a[2] + a[3] * a[3]

\* vertices[k] of the source
Vtx(vs, k) == vs[k + 1]

\* np.cross(v1 - v0, v2 - v0) of a face
FaceCross(vs, face) ==
    Cross(Sub(Vtx(vs, face[2]), Vtx(vs, face[1])),
          Sub(Vtx(vs, face[3]), Vtx(vs, face[1])))

\* for c in range(n): append A(c); append B(c)
TwoPer(n, A(_), B(_)) ==
    [k \in 1..(2 * n) |->
        IF k % 2 = 1 THEN A((k - 1) \div 2) ELSE B((k - 1) \div 2)]

\* --------------------------------------------------- MeshGenerator, vertices
\* for i in range(rows): for j in range(cols): vertices.append([x, y, z]),
\* taken up at (i, j) with `vs` appended so far
RECURSIVE TopLoop(_, _, _, _, _)
TopLoop(hd, ps, i, j, vs) ==
    IF i >= hd.rows THEN vs
    ELSE IF j >= hd.cols THEN TopLoop(hd, ps, i + 1, 0, vs)
    ELSE LET x == j * ps
             y == i * ps
             z == hd.at[<<i, j>>]
         IN  TopLoop(hd, ps, i, j + 1, Append(vs, <<x, y, z>>))

\* variant: the top layer with x and y exchanged
TopVerticesSwapped(hd, ps) ==
    [k \in 1..(hd.rows * hd.cols) |->
        LET i == (k - 1) \div hd.cols
            j == (k - 1) % hd.cols
        IN  <<i * ps, j * ps, hd.at[<<i, j>>]>>]

\* vertices = [] and the loop over the top surface
TopVertices(hd, ps) == TopLoop(hd, ps, 0, 0, <<>>)

\* for i in range(rows): for j in range(cols): vertices.append([x, y, base_height])
RECURSIVE BottomLoop(_, _, _, _, _, _)
BottomLoop(hd, ps, bh, i, j, vs) ==
    IF i >= hd.rows THEN vs
    ELSE IF j >= hd.cols THEN BottomLoop(hd, ps, bh, i + 1, 0, vs)
    ELSE LET x == j * ps
             y == i * ps
         IN  BottomLoop(hd, ps, bh, i, j + 1, Append(vs, <<x, y, bh>>))

\* the loop over the bottom surface; the caller appends its vertices to the top's
BottomVertices(hd, ps, bh) == BottomLoop(hd, ps, bh, 0, 0, <<>>)

\* ------------------------------------------------------ MeshGenerator, faces
\* variant: the top surface wound like the bottom surface
TopFacesReversed(rows, cols) ==
    TwoPer((rows - 1) * (cols - 1),
        LAMBDA c : LET idx == (c \div (cols - 1)) * cols + (c % (cols - 1))
                   IN  <<idx, idx + cols, idx + 1>>,
        LAMBDA c : LET idx == (c \div (cols - 1)) * cols + (c % (cols - 1))
                   IN  <<idx + 1, idx + cols, idx + cols + 1>>)

TopFaces(rows, cols) ==
    TwoPer((rows - 1) * (cols - 1),
        LAMBDA c : LET idx == (c \div (cols - 1)) * cols + (c % (cols - 1))
                   IN  <<idx, idx + 1, idx + cols>>,
        LAMBDA c : LET idx == (c \div (cols - 1)) * cols + (c % (cols - 1))
                   IN  <<idx + 1, idx + cols + 1, idx + cols>>)

BottomFaces(rows, cols) ==
    LET offset == rows * cols
    IN  TwoPer((rows - 1) * (cols - 1),
        LAMBDA c : LET idx == (c \div (cols - 1)) * cols + (c % (cols - 1)) + offset
                   IN  <<idx, idx + cols, idx + 1>>,
        LAMBDA c : LET idx == (c \div (cols - 1)) * cols + (c % (cols - 1)) + offset
                   IN  <<idx + 1, idx + cols, idx + cols + 1>>)

LeftFaces(rows, cols) ==
    LET offset == rows * cols
    IN  TwoPer(rows - 1,
        LAMBDA i : LET top_idx == i * cols
                       bot_idx == top_idx + offset
                   IN  <<top_idx, bot_idx, top_idx + cols>>,
        LAMBDA i : LET top_idx == i * cols
                       bot_idx == top_idx + offset
                   IN  <<bot_idx, bot_idx + cols, top_idx + cols>>)

RightFaces(rows, cols) ==
    LET offset == rows * cols
    IN  TwoPer(rows - 1,
        LAMBDA i : LET top_idx == i * cols + cols - 1
                       bot_idx == top_idx + offset
                   IN  <<top_idx, top_idx + cols, bot_idx>>,
        LAMBDA i : LET top_idx == i * cols + cols - 1
                       bot_idx == top_idx + offset
                   IN  <<bot_idx, top_idx + cols, bot_idx + cols>>)

FrontFaces(rows, cols) ==
    LET offset == rows * cols
    IN  TwoPer(cols - 1,
        LAMBDA j : LET top_idx == j
                       bot_idx == top_idx + offset
                   IN  <<top_idx, top_idx + 1, bot_idx>>,
        LAMBDA j : LET top_idx == j
                       bot_idx == top_idx + offset
                   IN  <<bot_idx, top_idx + 1, bot_idx + 1>>)

\* variant: the back edge's loop left out
BackFacesOmitted(rows, cols) == <<>>

BackFaces(rows, cols) ==
    LET offset == rows * cols
    IN  TwoPer(cols - 1,
        LAMBDA j : LET top_idx == (rows - 1) * cols + j
                       bot_idx == top_idx + offset
                   IN  <<top_idx, bot_idx, top_idx + 1>>,
        LAMBDA j : LET top_idx == (rows - 1) * cols + j
                       bot_idx == top_idx + offset
                   IN  <<bot_idx, bot_idx + 1, top_idx + 1>>)

\* heightmap_to_mesh unpacks the grid's shape and checks nothing: every
\* rows x cols grid is meshed, and the call has no failing path of its own.
HeightmapToMesh(hd, ps, bh) ==
    [vertices |-> TopVertices(hd, ps) \o BottomVertices(hd, ps, bh),
     faces    |-> TopFaces(hd.rows, hd.cols) \o BottomFaces(hd.rows, hd.cols)
                  \o LeftFaces(hd.rows, hd.cols) \o RightFaces(hd.rows, hd.cols)
                  \o FrontFaces(hd.rows, hd.cols) \o BackFaces(hd.rows, hd.cols)]

\* ------------------------------------------------------- the meshing machine
\* A two-level height grid: `lo` everywhere but on the cells of `raised`, `hi`.
TwoLevelGrid(rows, cols, raised, lo, hi) ==
    [rows |-> rows, cols |-> cols,
     at   |-> [c \in (0..(rows - 1)) \X (0..(cols - 1)) |->
                  IF c \in raised THEN hi ELSE lo]]

SmallSubsets(S, n) == {T \in SUBSET S : Cardinality(T) <= n}

\* no entry point is being called directly
NoResult == [k \in {} |-> 0]

EntryIdle ==
    /\ entry = [name |-> "none", height |-> 0, base |-> 0]
    /\ result = NoResult

MeshInit ==
    /\ \E rows \in 1..MaxRows, cols \in 1..MaxCols, lo \in 0..MaxHeight, hi \in 0..MaxHeight :
         \E raised \in SmallSubsets((0..(rows - 1)) \X (0..(cols - 1)), MaxRaised) :
            height_data = TwoLevelGrid(rows, cols, raised, lo, hi)
    /\ pixel_size \in 1..MaxPixel
    /\ base_height \in 0..MaxBase
    /\ vertices = <<>>
    /\ faces = <<>>
    /\ outcome = "none"
    /\ mpc = "called"

MeshIdle ==
    /\ height_data = [rows |-> 0, cols |-> 0, at |-> <<>>]
    /\ pixel_size = 0
    /\ base_height = 0
    /\ vertices = <<>>
    /\ faces = <<>>
    /\ outcome = "none"
    /\ mpc = "idle"

\* MeshGenerator.heightmap_to_mesh, start to return
HeightmapToMeshCall ==
    /\ mpc = "called"
    /\ LET m == HeightmapToMesh(height_data, pixel_size, base_height)
       IN  /\ vertices' = m.vertices
           /\ faces' = m.faces
    /\ outcome' = "mesh"
    /\ mpc' = "returned"
    /\ UNCHANGED <<height_data, pixel_size, base_height>>

\* ------------------------------------------------------------- STLWriter
\* A byte of the file is [u8 |-> b], b in 0..255, or [f32 |-> <<n, d2>>, byte |-> k]:
\* byte k of the little-endian IEEE single that struct.pack makes of n / sqrt(d2).
U8(b) == [u8 |-> b]

\* struct.pack('<f', x): four bytes
PackF32(x) == [k \in 1..4 |-> [f32 |-> x, byte |-> k - 1]]

\* struct.pack('<3f', *v) of three values
Pack3f(v) == PackF32(v[1]) \o PackF32(v[2]) \o PackF32(v[3])

\* the value of an integer coordinate
Whole(n) == <<n, 1>>

\* struct.pack('<I', n): four bytes, least significant first
PackU32(n) ==
    <<U8(n % 256), U8((n \div 256) % 256),
      U8((n \div 65536) % 256), U8((n \div 16777216) % 256)>>

\* struct.pack('<H', n): two bytes, least significant first
PackU16(n) == <<U8(n % 256), U8((n \div 256) % 256)>>

\* b'Enhanced 3D Model Converter'
HeaderText ==
    <<69, 110, 104, 97, 110, 99, 101, 100, 32, 51, 68, 32, 77, 111, 100, 101, 108,
      32, 67, 111, 110, 118, 101, 114, 116, 101, 114>>

\* variant: the header without its padding
StlHeaderShort == [k \in 1..Len(HeaderText) |-> U8(HeaderText[k])]

\* header = b'Enhanced 3D Model Converter' + b' ' * (80 - 27)
StlHeader ==
    [k \in 1..Len(HeaderText) |-> U8(HeaderText[k])] \o [k \in 1..(80 - 27) |-> U8(32)]

\* variant: the division without the norm > 0 guard
NormalUnguarded(cross) ==
    <<<<cross[1], NormSq(cross)>>, <<cross[2], NormSq(cross)>>, <<cross[3], NormSq(cross)>>>>

\* normal = normal / norm if norm > 0 else np.array([0, 0, 1])
Normal(cross) ==
    IF NormSq(cross) > 0
        THEN <<<<cross[1], NormSq(cross)>>, <<cross[2], NormSq(cross)>>,
               <<cross[3], NormSq(cross)>>>>
        ELSE <<Whole(0), Whole(0), Whole(1)>>

\* one iteration of the loop over the faces: the 50 bytes of a triangle
FaceRecord(vs, face) ==
    LET v0 == Vtx(vs, face[1])
        v1 == Vtx(vs, face[2])
        v2 == Vtx(vs, face[3])
    IN  Pack3f(Normal(FaceCross(vs, face)))
        \o Pack3f(<<Whole(v0[1]), Whole(v0[2]), Whole(v0[3])>>)
        \o Pack3f(<<Whole(v1[1]), Whole(v1[2]), Whole(v1[3])>>)
        \o Pack3f(<<Whole(v2[1]), Whole(v2[2]), Whole(v2[3])>>)
        \o PackU16(0)

\* ------------------------------------------------------ the writing machine
StlIdle ==
    /\ stl_file = <<>>
    /\ stl_written = 0
    /\ spc = "idle"

\* open(filename, 'wb'), the header and the triangle count
OpenStl ==
    /\ spc = "ready"
    /\ mpc \in {"returned", "given"}
    /\ stl_file' = StlHeader \o PackU32(Len(faces))
    /\ stl_written' = 0
    /\ spc' = "writing"
    /\ UNCHANGED <<meshVars, multiVars, httpVars, entryVars>>

\* one iteration of `for face in faces`
WriteFace ==
    /\ spc = "writing"
    /\ stl_written < Len(faces)
    /\ stl_file' = stl_file \o FaceRecord(vertices, faces[stl_written + 1])
    /\ stl_written' = stl_written + 1
    /\ UNCHANGED <<spc, meshVars, multiVars, httpVars, entryVars>>

\* the loop is exhausted and the with block closes the file
CloseStl ==
    /\ spc = "writing"
    /\ stl_written = Len(faces)
    /\ spc' = "closed"
    /\ UNCHANGED <<stl_file, stl_written, meshVars, multiVars, httpVars, entryVars>>

HttpIdle ==
    /\ req = <<>>
    /\ upload_folder = [p \in {} |-> <<>>]

\* STLWriter.write_stl, start to return: the whole file
RECURSIVE FaceRecords(_, _)
FaceRecords(vs, fcs) ==
    IF fcs = <<>> THEN <<>>
    ELSE FaceRecord(vs, Head(fcs)) \o FaceRecords(vs, Tail(fcs))

WriteStl(vs, fcs) == StlHeader \o PackU32(Len(fcs)) \o FaceRecords(vs, fcs)

\* ------------------------------------------------------ dicts and the files
NoFiles == <<>>
EmptyFs == [p \in {} |-> <<>>]

\* d[k] = v on a dict kept as the sequence of its <<key, value>> items
DictPut(d, k, v) ==
    IF \E n \in DOMAIN d : d[n][1] = k
        THEN [n \in DOMAIN d |-> IF d[n][1] = k THEN <<k, v>> ELSE d[n]]
        ELSE Append(d, <<k, v>>)

DictKeys(d) == {d[n][1] : n \in DOMAIN d}
DictValues(d) == {d[n][2] : n \in DOMAIN d}

\* open(path, 'wb') and the writes: the path holds these bytes, whatever it held
FsWrite(f, path, bytes) == [q \in DOMAIN f \cup {path} |-> IF q = path THEN bytes ELSE f[q]]

MultiIdle ==
    /\ colors = <<>>
    /\ todo = <<>>
    /\ img_array = [rows |-> 0, cols |-> 0, at |-> <<>>]
    /\ mats = <<>>
    /\ files = NoFiles
    /\ fs = EmptyFs
    /\ xpc = "idle"

\* ------------------------------------- STLWriter.write_multi_material_stl
\* np.unique(colors): the distinct ids, ascending
RECURSIVE Ascending(_)
Ascending(S) ==
    IF S = {} THEN <<>>
    ELSE LET m == CHOOSE x \in S : \A y \in S : x <= y
         IN  <<m>> \o Ascending(S \ {m})

UniqueColors(cs) == Ascending({cs[k] : k \in DOMAIN cs})

\* faces[colors == color_id]
RECURSIVE ColorFaces(_, _, _)
ColorFaces(fcs, cs, color_id) ==
    IF fcs = <<>> THEN <<>>
    ELSE (IF Head(cs) = color_id THEN <<Head(fcs)>> ELSE <<>>)
         \o ColorFaces(Tail(fcs), Tail(cs), color_id)

\* int(color_id) of an integer id
IntOf(color_id) == color_id

\* variant: one file name for every id
MaterialFileShared(prefix, color_id) == <<prefix, "_material_", ".stl">>

\* f"{output_prefix}_material_{int(color_id)}.stl"
MaterialFile(prefix, color_id) == <<prefix, "_material_", IntOf(color_id), ".stl">>

\* f"Material_{int(color_id)}"
MaterialKey(color_id) == <<"Material_", IntOf(color_id)>>

\* unique_colors = np.unique(colors); files = {}
UniqueStep ==
    /\ xpc = "tagged"
    /\ todo' = UniqueColors(colors)
    /\ files' = NoFiles
    /\ xpc' = "colors"
    /\ UNCHANGED <<colors, img_array, mats, fs, meshVars, stlVars, httpVars, entryVars>>

\* one iteration of `for color_id in unique_colors`
ColorStep ==
    /\ xpc = "colors"
    /\ todo # <<>>
    /\ LET color_id == Head(todo)
           color_faces == ColorFaces(faces, colors, color_id)
           filename == MaterialFile("out", color_id)
       IN  IF Len(color_faces) > 0
             THEN /\ fs' = FsWrite(fs, filename, WriteStl(vertices, color_faces))
                  /\ files' = DictPut(files, MaterialKey(color_id), filename)
             ELSE UNCHANGED <<fs, files>>
    /\ todo' = Tail(todo)
    /\ UNCHANGED <<colors, img_array, mats, xpc, meshVars, stlVars, httpVars, entryVars>>

\* return files
PartitionReturn ==
    /\ xpc = "colors"
    /\ todo = <<>>
    /\ xpc' = "returned"
    /\ UNCHANGED <<colors, todo, img_array, mats, files, fs, meshVars, stlVars, httpVars, entryVars>>

\* the mesh and the ids given to write_multi_material_stl
TaggedVertices == <<<<0, 0, 0>>, <<1, 0, 0>>, <<0, 1, 0>>, <<0, 0, 1>>>>
TaggedFacePool == {<<0, 1, 2>>, <<0, 3, 1>>}
ColorIds == (-1)..MaxColor

PartitionInit ==
    /\ EntryIdle
    /\ height_data = [rows |-> 0, cols |-> 0, at |-> <<>>]
    /\ pixel_size = 0
    /\ base_height = 0
    /\ vertices = TaggedVertices
    /\ \E n \in 0..MaxTagged :
          /\ faces \in [1..n -> TaggedFacePool]
          /\ colors \in [1..n -> ColorIds]
    /\ outcome = "mesh"
    /\ mpc = "given"
    /\ StlIdle
    /\ todo = <<>>
    /\ img_array = [rows |-> 0, cols |-> 0, at |-> <<>>]
    /\ mats = <<>>
    /\ files = NoFiles
    /\ fs = EmptyFs
    /\ xpc = "tagged"
    /\ HttpIdle

PartitionNext ==
    \/ UniqueStep
    \/ ColorStep
    \/ PartitionReturn

SpecPartition == PartitionInit /\ [][PartitionNext]_vars

\* ------------------------------------------------- MultiMaterialConverter
Threshold == 128
FullScale == 255
ConvertHeight == 10
ConvertBase == 2

\* variant: img_array > threshold
Material1Strict(img) ==
    [c \in DOMAIN img.at |-> IF img.at[c] > Threshold THEN img.at[c] ELSE 0]

\* material_1 = np.where(img_array >= threshold, img_array, 0)
Material1(img) ==
    [c \in DOMAIN img.at |-> IF img.at[c] >= Threshold THEN img.at[c] ELSE 0]

\* variant: img_array <= threshold
Material2Inclusive(img) ==
    [c \in DOMAIN img.at |-> IF img.at[c] <= Threshold THEN 255 - img.at[c] ELSE 0]

\* material_2 = np.where(img_array < threshold, 255 - img_array, 0)
Material2(img) ==
    [c \in DOMAIN img.at |-> IF img.at[c] < Threshold THEN 255 - img.at[c] ELSE 0]

\* mat.max()
MaxOf(mat) == CHOOSE x \in {mat[c] : c \in DOMAIN mat} : \A c \in DOMAIN mat : mat[c] <= x

\* The converter's lengths are counted in units of 1/51 mm, the coarsest unit
\* in which (mat / 255.0) * 10.0 is whole for every 8-bit mat.
UnitsPerMm == FullScale \div 5

\* (mat / 255.0) * height + base
HeightGrid(img, mat) ==
    [rows |-> img.rows, cols |-> img.cols,
     at   |-> [c \in DOMAIN mat |->
                  (mat[c] * ConvertHeight * UnitsPerMm) \div FullScale
                  + ConvertBase * UnitsPerMm]]

\* heightmap_to_mesh(height, 1.0, 0) and write_stl
MaterialStl(img, mat) ==
    LET m == HeightmapToMesh(HeightGrid(img, mat), 1 * UnitsPerMm, 0)
    IN  WriteStl(m.vertices, m.faces)

\* mat1, mat2 = MultiMaterialConverter.separate_colors(image_path); files = {}
SeparateStep ==
    /\ xpc = "image"
    /\ mats' = <<Material1(img_array), Material2(img_array)>>
    /\ files' = NoFiles
    /\ xpc' = "bright"
    /\ UNCHANGED <<colors, todo, img_array, fs, meshVars, stlVars, httpVars, entryVars>>

\* Material 1 (bright areas)
BrightStep ==
    /\ xpc = "bright"
    /\ IF MaxOf(mats[1]) > 0
         THEN LET file1 == <<"out", "_material_1_bright.stl">>
              IN  /\ fs' = FsWrite(fs, file1, MaterialStl(img_array, mats[1]))
                  /\ files' = DictPut(files, "Material_1_Bright", file1)
         ELSE UNCHANGED <<fs, files>>
    /\ xpc' = "dark"
    /\ UNCHANGED <<colors, todo, img_array, mats, meshVars, stlVars, httpVars, entryVars>>

\* Material 2 (dark areas)
DarkStep ==
    /\ xpc = "dark"
    /\ IF MaxOf(mats[2]) > 0
         THEN LET file2 == <<"out", "_material_2_dark.stl">>
              IN  /\ fs' = FsWrite(fs, file2, MaterialStl(img_array, mats[2]))
                  /\ files' = DictPut(files, "Material_2_Dark", file2)
         ELSE UNCHANGED <<fs, files>>
    /\ xpc' = "return"
    /\ UNCHANGED <<colors, todo, img_array, mats, meshVars, stlVars, httpVars, entryVars>>

\* return files
ConvertReturn ==
    /\ xpc = "return"
    /\ xpc' = "returned"
    /\ UNCHANGED <<colors, todo, img_array, mats, files, fs, meshVars, stlVars, httpVars, entryVars>>

\* the image as separate_colors holds it: 8-bit gray, at least one pixel
GrayLevels == {0, 127, 128, 255}

Shapes == {sh \in (1..MaxPixels) \X (1..MaxPixels) : sh[1] * sh[2] <= MaxPixels}

ConvertInit ==
    /\ EntryIdle
    /\ MeshIdle
    /\ StlIdle
    /\ colors = <<>>
    /\ todo = <<>>
    /\ \E sh \in Shapes :
          \E px \in [(0..(sh[1] - 1)) \X (0..(sh[2] - 1)) -> GrayLevels] :
              img_array = [rows |-> sh[1], cols |-> sh[2], at |-> px]
    /\ mats = <<>>
    /\ files = NoFiles
    /\ fs = EmptyFs
    /\ xpc = "image"
    /\ HttpIdle

ConvertNext ==
    \/ SeparateStep
    \/ BrightStep
    \/ DarkStep
    \/ ConvertReturn

SpecConvert == ConvertInit /\ [][ConvertNext]_vars

\* ------------------------------------------------------------ specifications
\* heightmap_to_mesh alone, on grids of up to MaxRows x MaxCols
MeshNext == HeightmapToMeshCall /\ UNCHANGED <<stlVars, multiVars, httpVars, entryVars>>

MeshSpecInit ==
    /\ EntryIdle
    /\ MeshInit
    /\ StlIdle
    /\ MultiIdle
    /\ HttpIdle

SpecMesh == MeshSpecInit /\ [][MeshNext]_vars

\* a mesh given directly to write_stl: three vertices and n faces over them
Points == (0..MaxCoord) \X (0..1) \X (0..1)

GivenFaces(n) == [k \in 1..n |-> IF k % 2 = 1 THEN <<0, 1, 2>> ELSE <<0, 2, 1>>]

GivenMeshInit ==
    /\ height_data = [rows |-> 0, cols |-> 0, at |-> <<>>]
    /\ pixel_size = 0
    /\ base_height = 0
    /\ vertices \in [1..3 -> Points]
    /\ \E n \in 0..MaxFaces : faces = GivenFaces(n)
    /\ outcome = "mesh"
    /\ mpc = "given"

\* the mesh of a grid of up to 2 x 2, as every converter hands it to write_stl
SmallGridInit ==
    /\ MeshInit
    /\ height_data.rows <= 2
    /\ height_data.cols <= 2

StlInit ==
    /\ EntryIdle
    /\ GivenMeshInit \/ SmallGridInit
    /\ MultiIdle
    /\ HttpIdle
    /\ stl_file = <<>>
    /\ stl_written = 0
    /\ spc = "ready"

StlNext ==
    \/ HeightmapToMeshCall /\ UNCHANGED <<stlVars, multiVars, httpVars, entryVars>>
    \/ OpenStl
    \/ WriteFace
    \/ CloseStl

SpecStl == StlInit /\ [][StlNext]_vars

\* ---------------------------------------------- the conversion entry points
\* The entry points called directly, each on the grid its producer made of its
\* input.  Lengths are counted in units of 0.5 mm here, the cell size of the
\* Braille and QR converters; a height grid has the values base .. base + height,
\* as `data * height + base` has for data in 0 .. 1.
SingleMeshEntries == {"heightmap", "topo_csv", "topo_fake", "braille", "qr", "depth"}
EntryPoints == SingleMeshEntries \cup {"multi"}

\* the cell size an entry point hands to heightmap_to_mesh: its pixel_size
\* parameter, the literal 0.5 or the literal 1.0
EntryPixelSize(name, given) ==
    CASE name \in {"heightmap", "topo_csv"} -> given
      [] name \in {"braille", "qr"}         -> 1
      [] OTHER                              -> 2

\* f"{x:.1f}" of a length of x half millimetres: the tenths of a millimetre shown
Fmt1(x) == 5 * x

\* f"{n:.0f}" of a whole number n of millimetres: the tenths of a millimetre shown
Fmt0(n) == 10 * n

\* the dict HeightmapConverter.convert returns
HeightmapResult(hd, ps, e, m) ==
    [dimensions |-> <<Fmt1((hd.cols - 1) * ps), Fmt1((hd.rows - 1) * ps),
                      Fmt1(e.height + e.base)>>,
     vertices   |-> Len(m.vertices),
     faces      |-> Len(m.faces)]

\* the dict TopoMapConverter.from_csv returns (the grid stands for the points)
TopoCsvResult(hd) ==
    [points          |-> hd.rows * hd.cols,
     grid_size       |-> <<hd.rows, hd.cols>>,
     elevation_range |-> <<hd.at[<<0, 0>>], hd.at[<<hd.rows - 1, hd.cols - 1>>]>>]

\* the dict TopoMapConverter.from_fake_data returns
TopoFakeResult(hd) == [type |-> "simulated_terrain", size |-> <<hd.rows, hd.cols>>]

\* the dict BrailleConverter.convert returns: img.width * 0.5 and img.height * 0.5
BrailleResult(hd) ==
    [text       |-> "text",
     characters |-> 4,
     dimensions |-> <<Fmt1(hd.cols), Fmt1(hd.rows)>>]

\* the dict QRCodeConverter.convert returns
QrResult(hd) ==
    [data |-> "data",
     mode |-> "scannable",
     size |-> <<Fmt1(hd.cols), Fmt1(hd.rows)>>]

\* the dict AIDepthConverter.convert returns: shape[1] and shape[0] as millimetres
DepthResult(hd, e) ==
    [method     |-> "AI_depth_estimation",
     note       |-> "Using simplified algorithm (production would use MiDaS/DPT)",
     dimensions |-> <<Fmt0(hd.cols), Fmt0(hd.rows), Fmt1(e.height + e.base)>>]

EntryResult(hd, ps, e, m) ==
    CASE e.name = "heightmap" -> HeightmapResult(hd, ps, e, m)
      [] e.name = "topo_csv"  -> TopoCsvResult(hd)
      [] e.name = "topo_fake" -> TopoFakeResult(hd)
      [] e.name = "braille"   -> BrailleResult(hd)
      [] e.name = "qr"        -> QrResult(hd)
      [] e.name = "depth"     -> DepthResult(hd, e)

\* a dict as the mapping it is: key -> value
DictAsMap(d) == [k \in DictKeys(d) |-> d[CHOOSE n \in DOMAIN d : d[n][1] = k][2]]

\* a single-mesh entry point, from the grid to its return: heightmap_to_mesh
\* with base 0, write_stl, the returned dict
EntryConvert ==
    /\ entry.name \in SingleMeshEntries
    /\ mpc = "called"
    /\ LET m == HeightmapToMesh(height_data, pixel_size, 0)
       IN  /\ vertices' = m.vertices
           /\ faces' = m.faces
           /\ stl_file' = WriteStl(m.vertices, m.faces)
           /\ stl_written' = Len(m.faces)
           /\ result' = EntryResult(height_data, pixel_size, entry, m)
    /\ spc' = "closed"
    /\ outcome' = "mesh"
    /\ mpc' = "returned"
    /\ UNCHANGED <<height_data, pixel_size, base_height, entry, multiVars, httpVars>>

\* MultiMaterialConverter.convert's `return files`, its caller holding the dict
EntryMultiReturn ==
    /\ entry.name = "multi"
    /\ xpc = "return"
    /\ xpc' = "returned"
    /\ result' = DictAsMap(files)
    /\ UNCHANGED <<colors, todo, img_array, mats, files, fs, entry,
                   meshVars, stlVars, httpVars>>

\* the grids of the entry points: flat, or with the first cell at full height;
\* the two topographic producers make square grids
EntryGrids(name, height, base) ==
    {TwoLevelGrid(rows, cols, raised, base, base + height) :
        <<rows, cols, raised>> \in
            {t \in (1..MaxRows) \X (1..MaxCols) \X {{}, {<<0, 0>>}} :
                name \in {"topo_csv", "topo_fake"} => t[1] = t[2]}}

EntryInit ==
    /\ StlIdle
    /\ HttpIdle
    /\ colors = <<>>
    /\ todo = <<>>
    /\ mats = <<>>
    /\ files = NoFiles
    /\ fs = EmptyFs
    /\ result = NoResult
    /\ vertices = <<>>
    /\ faces = <<>>
    /\ outcome = "none"
    /\ base_height = 0
    /\ \/ /\ entry = [name |-> "multi", height |-> ConvertHeight, base |-> ConvertBase]
          /\ height_data = [rows |-> 0, cols |-> 0, at |-> <<>>]
          /\ pixel_size = 0
          /\ mpc = "idle"
          /\ \E sh \in Shapes :
                \E px \in [(0..(sh[1] - 1)) \X (0..(sh[2] - 1)) -> GrayLevels] :
                    img_array = [rows |-> sh[1], cols |-> sh[2], at |-> px]
          /\ xpc = "image"
       \/ \E name \in SingleMeshEntries, height \in 1..MaxHeight, base \in 0..MaxBase :
             /\ entry = [name |-> name, height |-> height, base |-> base]
             /\ height_data \in EntryGrids(name, height, base)
             /\ \E given \in 1..MaxPixel : pixel_size = EntryPixelSize(name, given)
             /\ mpc = "called"
             /\ img_array = [rows |-> 0, cols |-> 0, at |-> <<>>]
             /\ xpc = "idle"

EntryNext ==
    \/ EntryConvert
    \/ SeparateStep
    \/ BrightStep
    \/ DarkStep
    \/ EntryMultiReturn

SpecEntry == EntryInit /\ [][EntryNext]_vars

\* ------------------------------------------------------ the HTTP adapter
\* Two requests are served at once (Flask's server runs each request on a
\* thread of its own).  A handler's steps are: validate, save the upload, the
\* converter reading its input, the converter writing its output, send_file.
\* An STL is kept as what it was made of: the converter and the payload.
Requests == {1, 2}

FileEndpoints == {"heightmap", "depth", "multi"}
TextEndpoints == {"braille", "qr"}
Endpoints == FileEndpoints \cup TextEndpoints \cup {"topo"}

\* A payload is [name, tone]: an image by its name and its tones, a request
\* without a 'file' part, a file that is no image, a text (the empty one too).
NoFile == [name |-> "", tone |-> "no file part"]
Corrupt == [name |-> "c", tone |-> "not an image"]
Images == [name : {"a", "b"}, tone : {"bright", "dark", "mixed"}]
Texts == [name : {"", "p", "q"}, tone : {"text"}]
Nothing == [name |-> "", tone |-> "nothing"]

PayloadsOf(ep) ==
    IF ep \in FileEndpoints THEN Images \cup {NoFile, Corrupt}
    ELSE IF ep \in TextEndpoints THEN Texts
    ELSE {Nothing}

\* os.path.join(UPLOAD_FOLDER, 'input.jpg') and its like
InputPath(ep) ==
    CASE ep = "heightmap" -> <<"input.jpg">>
      [] ep = "depth"     -> <<"input_depth.jpg">>
      [] ep = "multi"     -> <<"input_multi.jpg">>

\* os.path.join(UPLOAD_FOLDER, 'output.stl') and its like
OutputPath(ep) ==
    CASE ep = "heightmap" -> <<"output.stl">>
      [] ep = "braille"   -> <<"braille.stl">>
      [] ep = "qr"        -> <<"qr.stl">>
      [] ep = "topo"      -> <<"terrain.stl">>
      [] ep = "depth"     -> <<"depth.stl">>
      [] ep = "multi"     -> <<"multi">>

\* the STL a converter makes of what it read
StlOf(ep, input, part) == [conv |-> ep, of |-> input, part |-> part]

\* MultiMaterialConverter.convert: the files it writes, as <<key, path, part>>
MultiFiles(prefix, image) ==
    (IF image.tone \in {"bright", "mixed"}
        THEN <<<<"Material_1_Bright", prefix \o <<"_material_1_bright.stl">>, "bright">>>>
        ELSE <<>>)
    \o (IF image.tone \in {"dark", "mixed"}
        THEN <<<<"Material_2_Dark", prefix \o <<"_material_2_dark.stl">>, "dark">>>>
        ELSE <<>>)

\* the files a converter call writes: <<key, path, part>> each
WrittenFiles(ep, input) ==
    IF ep = "multi" THEN MultiFiles(OutputPath(ep), input)
    ELSE <<<<"only", OutputPath(ep), "whole">>>>

FolderWrite(folder, path, content) ==
    [q \in DOMAIN folder \cup {path} |-> IF q = path THEN content ELSE folder[q]]

RECURSIVE FolderWriteAll(_, _, _, _)
FolderWriteAll(folder, ep, input, items) ==
    IF items = <<>> THEN folder
    ELSE FolderWriteAll(FolderWrite(folder, Head(items)[2], StlOf(ep, input, Head(items)[3])),
                        ep, input, Tail(items))

\* first_file = list(files.values())[0]
FirstFile(d) == d[1][2]

\* jsonify({'error': ...})
ErrorBody == [conv |-> "error", of |-> Nothing, part |-> "none"]

Respond(r, status, body) ==
    req' = [req EXCEPT ![r].pc = "done", ![r].response = [status |-> status, body |-> body]]

\* variant: no validation, every request goes on to its converter
ValidateSkipped(r) ==
    /\ req[r].pc = "received"
    /\ IF req[r].endpoint \in FileEndpoints
         THEN req' = [req EXCEPT ![r].pc = "save"]
         ELSE req' = [req EXCEPT ![r].pc = "write", ![r].input = req[r].payload]
    /\ UNCHANGED <<upload_folder, meshVars, stlVars, multiVars, entryVars>>

\* if 'file' not in request.files / if not text / if not qr_data
Validate(r) ==
    /\ req[r].pc = "received"
    /\ LET ep == req[r].endpoint
           payload == req[r].payload
       IN  IF (ep \in FileEndpoints /\ payload = NoFile)
               \/ (ep \in TextEndpoints /\ payload.name = "")
             THEN Respond(r, 400, ErrorBody)
             ELSE IF ep \in FileEndpoints
                    THEN req' = [req EXCEPT ![r].pc = "save"]
                    ELSE req' = [req EXCEPT ![r].pc = "write", ![r].input = payload]
    /\ UNCHANGED <<upload_folder, meshVars, stlVars, multiVars, entryVars>>

\* file.save(input_path)
SaveUpload(r) ==
    /\ req[r].pc = "save"
    /\ upload_folder' = FolderWrite(upload_folder, InputPath(req[r].endpoint), req[r].payload)
    /\ req' = [req EXCEPT ![r].pc = "read"]
    /\ UNCHANGED <<meshVars, stlVars, multiVars, entryVars>>

\* the converter opens image_path: Image.open raises on what is no image
ConverterRead(r) ==
    /\ req[r].pc = "read"
    /\ LET found == upload_folder[InputPath(req[r].endpoint)]
       IN  IF found = Corrupt
             THEN Respond(r, 500, ErrorBody)
             ELSE req' = [req EXCEPT ![r].pc = "write", ![r].input = found]
    /\ UNCHANGED <<upload_folder, meshVars, stlVars, multiVars, entryVars>>

\* the converter writes its STL file(s) and returns
ConverterWrite(r) ==
    /\ req[r].pc = "write"
    /\ LET items == WrittenFiles(req[r].endpoint, req[r].input)
       IN  /\ upload_folder' = FolderWriteAll(upload_folder, req[r].endpoint, req[r].input, items)
           /\ req' = [req EXCEPT ![r].pc = "send",
                                 ![r].files = [n \in DOMAIN items |-> items[n][2]]]
    /\ UNCHANGED <<meshVars, stlVars, multiVars, entryVars>>

\* first_file = list(files.values())[0]; send_file(...)
SendFile(r) ==
    /\ req[r].pc = "send"
    /\ IF req[r].files = <<>>
         THEN Respond(r, 500, ErrorBody)
         ELSE req' = [req EXCEPT ![r].pc = "done",
                                 ![r].sent = <<req[r].files[1]>>,
                                 ![r].response = [status |-> 200,
                                                  body |-> upload_folder[req[r].files[1]]]]
    /\ UNCHANGED <<upload_folder, meshVars, stlVars, multiVars, entryVars>>

NewRequest(ep, payload) ==
    [endpoint |-> ep, payload |-> payload, pc |-> "received", input |-> Nothing,
     files |-> <<>>, sent |-> <<>>, response |-> [status |-> 0, body |-> ErrorBody]]

HttpInit ==
    /\ EntryIdle
    /\ MeshIdle
    /\ StlIdle
    /\ MultiIdle
    /\ \E e1 \in Endpoints, e2 \in Endpoints :
          \E p1 \in PayloadsOf(e1), p2 \in PayloadsOf(e2) :
              req = [r \in Requests |-> IF r = 1 THEN NewRequest(e1, p1) ELSE NewRequest(e2, p2)]
    /\ upload_folder = [p \in {} |-> <<>>]

HttpNext ==
    \/ \E r \in Requests : Validate(r)
    \/ \E r \in Requests : SaveUpload(r)
    \/ \E r \in Requests : ConverterRead(r)
    \/ \E r \in Requests : ConverterWrite(r)
    \/ \E r \in Requests : SendFile(r)

SpecHttp == HttpInit /\ [][HttpNext]_vars

\* ------------------------------------------------------------ mesh readings
Rows == height_data.rows
Cols == height_data.cols

MeshReturned == mpc = "returned" /\ outcome = "mesh"

ValidGrid == Rows >= 2 /\ Cols >= 2

FaceIdx == 1..Len(faces)

\* the three directed edges a face traverses
DirEdges(f) == {<<f[1], f[2]>>, <<f[2], f[3]>>, <<f[3], f[1]>>}

\* the faces that traverse the edge from a to b
Traversing(a, b) == {k \in FaceIdx : <<a, b>> \in DirEdges(faces[k])}

\* the faces that hold the undirected edge {a, b}
Holding(a, b) == Traversing(a, b) \cup Traversing(b, a)

FaceXs(f) == {Vtx(vertices, f[n])[1] : n \in 1..3}
FaceYs(f) == {Vtx(vertices, f[n])[2] : n \in 1..3}

\* a face whose three vertices are top-layer (bottom-layer) vertices
IsTopFace(f) == \A n \in 1..3 : f[n] < Rows * Cols
IsBottomFace(f) == \A n \in 1..3 : f[n] >= Rows * Cols

\* every boundary sample of the grid lies strictly above the base elevation
BoundaryAboveBase ==
    \A c \in DOMAIN height_data.at :
        (c[1] \in {0, Rows - 1} \/ c[2] \in {0, Cols - 1})
            => height_data.at[c] > base_height

\* ------------------------------------------------------------------ claims

\* C1: for a grid of R >= 2 rows and C >= 2 columns, heightmap_to_mesh returns
\* exactly 2*R*C vertices and 4*(R-1)*(C-1) + 4*(R-1) + 4*(C-1) faces.
C1_MeshCounts ==
    (MeshReturned /\ ValidGrid) =>
        /\ Len(vertices) = 2 * Rows * Cols
        /\ Len(faces) = 4 * (Rows - 1) * (Cols - 1) + 4 * (Rows - 1) + 4 * (Cols - 1)

C1_Witness ==
    /\ MeshReturned
    /\ Rows = 3 /\ Cols = 2
    /\ Len(vertices) = 12
    /\ Len(faces) = 20

\* C2: the returned mesh is watertight: every undirected edge lies in exactly
\* two faces, and the two traverse it in opposite directions.
C2_Watertight ==
    (MeshReturned /\ ValidGrid) =>
        \A k \in FaceIdx : \A e \in DirEdges(faces[k]) :
            /\ Cardinality(Holding(e[1], e[2])) = 2
            /\ Cardinality(Traversing(e[1], e[2])) = 1
            /\ Cardinality(Traversing(e[2], e[1])) = 1

\* C3: with the boundary heights strictly above the base, every wall triangle
\* is wound so that its cross product points away from the grid interior:
\* -x on the column-0 wall, +x on the last-column wall, -y on the row-0 wall,
\* +y on the last-row wall.
C3_WallsOutward ==
    (MeshReturned /\ ValidGrid /\ BoundaryAboveBase) =>
        \A k \in FaceIdx :
            LET f == faces[k]
                n == FaceCross(vertices, f)
            IN  /\ FaceXs(f) = {0} => n[1] < 0
                /\ FaceXs(f) = {(Cols - 1) * pixel_size} => n[1] > 0
                /\ FaceYs(f) = {0} => n[2] < 0
                /\ FaceYs(f) = {(Rows - 1) * pixel_size} => n[2] > 0

\* C4: a grid of fewer than 2 rows or fewer than 2 columns fails with an
\* invalid-grid error, and no mesh is returned.
C4_SmallGridRejected ==
    (mpc = "returned" /\ ~ValidGrid) =>
        /\ outcome = "error"
        /\ vertices = <<>>
        /\ faces = <<>>

\* C8: for R, C >= 2 and a positive cell size, every top-surface face has a
\* cross product with z >= 0 and every bottom-surface face one with z <= 0,
\* whatever the heights are.
C8_TopUpBottomDown ==
    (MeshReturned /\ ValidGrid /\ pixel_size > 0) =>
        \A k \in FaceIdx :
            /\ IsTopFace(faces[k]) => FaceCross(vertices, faces[k])[3] >= 0
            /\ IsBottomFace(faces[k]) => FaceCross(vertices, faces[k])[3] <= 0

C8_Witness ==
    /\ MeshReturned /\ ValidGrid
    /\ \E c, d \in DOMAIN height_data.at : height_data.at[c] # height_data.at[d]
    /\ \E k \in FaceIdx : IsTopFace(faces[k]) /\ FaceCross(vertices, faces[k])[3] > 0
    /\ \E k \in FaceIdx : IsBottomFace(faces[k]) /\ FaceCross(vertices, faces[k])[3] < 0

\* ------------------------------------------------------------- file readings
\* the integer a little-endian run of u8 bytes holds
RECURSIVE LittleEndian(_)
LittleEndian(bs) ==
    IF bs = <<>> THEN 0 ELSE bs[1].u8 + 256 * LittleEndian(Tail(bs))

IsF32(b) == "f32" \in DOMAIN b
IsU8(b) == "u8" \in DOMAIN b

\* bytes from..to of the file
Bytes(from, to) == SubSeq(stl_file, from, to)

\* the three values a 12-byte run packs, each in its four bytes 0..3
Unpack3f(bs) ==
    IF \A k \in 1..12 : IsF32(bs[k]) /\ bs[k].byte = (k - 1) % 4
                        /\ bs[k].f32 = bs[k - ((k - 1) % 4)].f32
        THEN <<bs[1].f32, bs[5].f32, bs[9].f32>>
        ELSE <<>>

\* the record of face k (k = 1 .. F) starts after 84 + 50 * (k - 1) bytes
RecordAt(k) == Bytes(84 + 50 * (k - 1) + 1, 84 + 50 * k)

Degenerate(face) == NormSq(FaceCross(vertices, face)) = 0

StlComplete == spc = "closed"

\* C6: a completed write_stl of F faces has written exactly 84 + 50*F bytes:
\* an 80-byte header, the 4-byte little-endian count F, then F records of 50
\* bytes (12-byte normal, three 12-byte vertices, the 2-byte value 0).
C6_FileLayout ==
    StlComplete =>
        /\ Len(stl_file) = 84 + 50 * Len(faces)
        /\ \A k \in 1..80 : IsU8(stl_file[k])
        /\ LittleEndian(Bytes(81, 84)) = Len(faces)
        /\ \A k \in FaceIdx :
            LET r == RecordAt(k)
                f == faces[k]
            IN  /\ Len(Unpack3f(SubSeq(r, 1, 12))) = 3
                /\ \A n \in 1..3 :
                     Unpack3f(SubSeq(r, 12 * n + 1, 12 * n + 12))
                        = <<Whole(Vtx(vertices, f[n])[1]), Whole(Vtx(vertices, f[n])[2]),
                            Whole(Vtx(vertices, f[n])[3])>>
                /\ IsU8(r[49]) /\ IsU8(r[50])
                /\ LittleEndian(SubSeq(r, 49, 50)) = 0

C6_Witness ==
    /\ StlComplete
    /\ Len(faces) = 2
    /\ Len(stl_file) = 184
    /\ vertices[1] # vertices[2]

\* C7: every face whose cross product has zero magnitude is written with the
\* normal (0, 0, 1), and the write goes on to the remaining faces: it ends only
\* with every face written.  The all-zero 2 x 2 grid on base 0 gives 8 vertices
\* and 12 faces at z = 0 and a complete file.
C7_DegenerateFallback ==
    /\ \A k \in 1..stl_written :
          Degenerate(faces[k]) =>
              Unpack3f(SubSeq(RecordAt(k), 1, 12)) = <<Whole(0), Whole(0), Whole(1)>>
    /\ StlComplete =>
          /\ stl_written = Len(faces)
          /\ Len(stl_file) = Len(StlHeader) + 4 + 50 * Len(faces)
    /\ (StlComplete /\ mpc = "returned" /\ Rows = 2 /\ Cols = 2 /\ base_height = 0
            /\ \A c \in DOMAIN height_data.at : height_data.at[c] = 0) =>
          /\ Len(vertices) = 8
          /\ Len(faces) = 12
          /\ \A k \in 1..8 : vertices[k][3] = 0
          /\ Len(stl_file) = 84 + 50 * 12

C7_Witness ==
    /\ StlComplete /\ mpc = "returned" /\ Rows = 2 /\ Cols = 2 /\ base_height = 0
    /\ \A c \in DOMAIN height_data.at : height_data.at[c] = 0
    /\ \E k \in FaceIdx : Degenerate(faces[k]) /\ k < Len(faces)
    /\ \E k \in FaceIdx : ~Degenerate(faces[k])

\* ------------------------------------------------- multi-material readings
\* the triangle count a file states
CountField(bytes) == LittleEndian(SubSeq(bytes, 81, 84))

\* the 50-byte records that follow a file's 84 bytes of header and count
RecordsOf(bytes) ==
    [k \in 1..((Len(bytes) - 84) \div 50) |->
        SubSeq(bytes, 84 + 50 * (k - 1) + 1, 84 + 50 * k)]

\* the records of every file a returned dict names, one after the other
RECURSIVE EmittedRecords(_)
EmittedRecords(d) ==
    IF d = <<>> THEN <<>>
    ELSE RecordsOf(fs[Head(d)[2]]) \o EmittedRecords(Tail(d))

RECURSIVE EmittedCount(_)
EmittedCount(d) ==
    IF d = <<>> THEN 0
    ELSE CountField(fs[Head(d)[2]]) + EmittedCount(Tail(d))

Occurrences(seq, x) == Cardinality({k \in DOMAIN seq : seq[k] = x})

SeqRange(seq) == {seq[k] : k \in DOMAIN seq}

PartitionReturned == xpc = "returned" /\ mpc = "given"

ConvertReturned == xpc = "returned" /\ img_array.rows > 0

UsedColors == SeqRange(colors)

\* C9: write_multi_material_stl emits one sub-mesh file per distinct id that
\* selects a face and none for the other ids; every original face is written
\* to exactly one sub-mesh, so the emitted face counts sum to the face count.
C9_PartitionExact ==
    PartitionReturned =>
        /\ DictKeys(files) = {MaterialKey(c) : c \in UsedColors}
        /\ Len(files) = Cardinality(UsedColors)
        /\ Cardinality(DictValues(files)) = Len(files)
        /\ DOMAIN fs = DictValues(files)
        /\ \A n \in DOMAIN files :
              /\ CountField(fs[files[n][2]]) >= 1
              /\ Len(RecordsOf(fs[files[n][2]])) = CountField(fs[files[n][2]])
        /\ EmittedCount(files) = Len(faces)
        /\ LET whole == RecordsOf(WriteStl(vertices, faces))
               parts == EmittedRecords(files)
           IN  \A r \in SeqRange(whole) \cup SeqRange(parts) :
                   Occurrences(parts, r) = Occurrences(whole, r)

C9_Witness ==
    /\ PartitionReturned
    /\ Len(faces) = 3
    /\ Len(files) = 2
    /\ faces[1] # faces[2]
    /\ colors[1] = colors[3] /\ colors[1] # colors[2]
    /\ \E c \in ColorIds : c \notin UsedColors

BrightPath == <<"out", "_material_1_bright.stl">>
DarkPath == <<"out", "_material_2_dark.stl">>

SomeBright == \E c \in DOMAIN img_array.at : img_array.at[c] >= Threshold
SomeDark == \E c \in DOMAIN img_array.at : img_array.at[c] < Threshold

\* the faces heightmap_to_mesh makes of a rows x cols grid, by its six loops
GridFaceCount(rows, cols) ==
    4 * (rows - 1) * (cols - 1) + 4 * (rows - 1) + 4 * (cols - 1)

\* a complete file holding the solid of a grid of the image's shape
StandaloneSolid(bytes) ==
    /\ CountField(bytes) = GridFaceCount(img_array.rows, img_array.cols)
    /\ Len(bytes) = 84 + 50 * CountField(bytes)

\* C10 as stated: every successful convert produces both the Material_1_Bright
\* and the Material_2_Dark file.
C10_BothFilesAlways ==
    ConvertReturned =>
        /\ DictKeys(files) = {"Material_1_Bright", "Material_2_Dark"}
        /\ DOMAIN fs = {BrightPath, DarkPath}

\* C10 amended: convert produces the Material_1_Bright file exactly when some
\* pixel is >= 128 and the Material_2_Dark file exactly when some pixel is
\* < 128, each a standalone solid of its own grid; both only for an image with
\* pixels on both sides of the threshold, and never none.
C10_FilePerNonEmptyMaterial ==
    ConvertReturned =>
        /\ ("Material_1_Bright" \in DictKeys(files)) <=> SomeBright
        /\ ("Material_2_Dark" \in DictKeys(files)) <=> SomeDark
        /\ DictKeys(files) \subseteq {"Material_1_Bright", "Material_2_Dark"}
        /\ Len(files) >= 1
        /\ DOMAIN fs = DictValues(files)
        /\ \A n \in DOMAIN files :
              /\ files[n][2] = (IF files[n][1] = "Material_1_Bright"
                                  THEN BrightPath ELSE DarkPath)
              /\ StandaloneSolid(fs[files[n][2]])
        /\ (SomeBright /\ SomeDark) =>
              /\ files[1][1] = "Material_1_Bright"
              /\ fs[BrightPath] = MaterialStl(img_array, mats[1])
              /\ fs[DarkPath] = MaterialStl(img_array, mats[2])
              /\ fs[BrightPath] # fs[DarkPath]

C10_Witness ==
    /\ ConvertReturned
    /\ img_array.rows = 2 /\ img_array.cols = 2
    /\ ~SomeDark
    /\ DictKeys(files) = {"Material_1_Bright"}
    /\ CountField(fs[BrightPath]) = 12

\* ----------------------------------------------------------- HTTP readings
InFlight(r) == r \in DOMAIN req /\ req[r].pc \in {"save", "read", "write", "send"}

\* the paths a request writes or reads between its validation and its response
PathsOf(r) ==
    LET ep == req[r].endpoint
    IN  (IF ep \in FileEndpoints THEN {InputPath(ep)} ELSE {})
        \cup (IF ep = "multi"
                THEN {OutputPath(ep) \o <<"_material_1_bright.stl">>,
                      OutputPath(ep) \o <<"_material_2_dark.stl">>}
                ELSE {OutputPath(ep)})

\* the input a request's converter is to work on: its own payload
OwnInput(r) == req[r].payload

\* C5: concurrent conversions served by the HTTP adapter are independent: each
\* request reads only its own upload and writes to paths no other request in
\* flight uses, so the file sent back is the STL made of its own payload.
C5_RequestsIndependent ==
    \A r \in DOMAIN req :
        /\ (req[r].pc \in {"write", "send"}) => req[r].input = OwnInput(r)
        /\ \A q \in DOMAIN req \ {r} :
              (InFlight(r) /\ InFlight(q)) => PathsOf(r) \cap PathsOf(q) = {}
        /\ (req[r].pc = "done" /\ req[r].response.status = 200) =>
              /\ req[r].response.body.conv = req[r].endpoint
              /\ req[r].response.body.of = OwnInput(r)

\* auxiliary to C5: the file sent back alone (it fails as well, e.g. for two
\* braille requests with different texts)
C5_OwnStlSent ==
    \A r \in DOMAIN req :
        (req[r].pc = "done" /\ req[r].response.status = 200) =>
            req[r].response.body.of = OwnInput(r)

\* ----------------------------------------------------- entry-point readings
EntryReturned == entry.name # "none" /\ (mpc = "returned" \/ xpc = "returned")

\* the mesh's actual extent along axis k, from its vertices
Extent(vs, k) ==
    LET xs == {vs[n][k] : n \in DOMAIN vs}
    IN  IF xs = {} THEN 0
        ELSE (CHOOSE hi \in xs : \A x \in xs : x <= hi)
             - (CHOOSE lo \in xs : \A x \in xs : lo <= x)

\* C11: every conversion entry point returns, on success, the mesh's vertex
\* count, its face count and its bounding dimensions, whose width and depth
\* are the mesh's x and y extents (cols-1)*cellSize and (rows-1)*cellSize.
C11_CountsAndDimensionsReturned ==
    EntryReturned =>
        /\ {"vertices", "faces", "dimensions"} \subseteq DOMAIN result
        /\ result.vertices = Len(vertices)
        /\ result.faces = Len(faces)
        /\ result.dimensions[1] = Fmt1(Extent(vertices, 1))
        /\ result.dimensions[2] = Fmt1(Extent(vertices, 2))
        /\ Extent(vertices, 1) = (Cols - 1) * pixel_size
        /\ Extent(vertices, 2) = (Rows - 1) * pixel_size

\* C11, the one entry point that does so: HeightmapConverter.convert
C11_HeightmapConverterReturnsThem ==
    (EntryReturned /\ entry.name = "heightmap") => C11_CountsAndDimensionsReturned

\* ------------------------------------------------------- response readings
Answered(r, status) == req[r].pc = "done" /\ req[r].response.status = status

\* C12: every HTTP conversion endpoint, on success, returns every file its
\* conversion produced; /api/convert/multi returns all the material files.
C12_EveryFileReturned ==
    \A r \in Requests :
        Answered(r, 200) => SeqRange(req[r].sent) = SeqRange(req[r].files)

\* C12, the endpoints whose conversion writes one file: that file is returned
C12_SingleFileReturned ==
    \A r \in Requests :
        (Answered(r, 200) /\ req[r].endpoint # "multi") =>
            /\ Len(req[r].files) = 1
            /\ req[r].sent = req[r].files

\* a request without a 'file' part, with an empty text or with empty QR data
Invalid(r) ==
    \/ req[r].endpoint \in FileEndpoints /\ req[r].payload = NoFile
    \/ req[r].endpoint \in TextEndpoints /\ req[r].payload.name = ""

\* the converter of request r raises on what it reads
Raising(r) ==
    /\ req[r].pc = "read"
    /\ upload_folder[InputPath(req[r].endpoint)] = Corrupt

\* an invalid request is never past validation, and is answered with the error
InvalidAnsweredEarly ==
    \A r \in Requests :
        Invalid(r) =>
            /\ req[r].pc \in {"received", "done"}
            /\ req[r].files = <<>>
            /\ req[r].sent = <<>>
            /\ req[r].pc = "done" =>
                  /\ req[r].response = [status |-> 400, body |-> ErrorBody]

\* what a step of request r may do
AbortingStep(r) ==
    \* the step of an invalid request answers it and writes no file
    /\ (Invalid(r) /\ req'[r] # req[r]) =>
          /\ upload_folder' = upload_folder
          /\ req'[r].pc = "done"
          /\ req'[r].response.status = 400
    \* a raising converter ends the request with the error, nothing written
    /\ (Raising(r) /\ req'[r] # req[r]) =>
          /\ upload_folder' = upload_folder
          /\ req'[r].pc = "done"
          /\ req'[r].response = [status |-> 500, body |-> ErrorBody]
    \* send_file is reached from the converter's return only
    /\ (req[r].pc # "send" /\ req'[r].pc = "send") =>
          /\ req[r].pc = "write"
          /\ \A n \in DOMAIN req'[r].files : req'[r].files[n] \in DOMAIN upload_folder'
    \* a file is sent by send_file only
    /\ (req[r].response.status # 200 /\ req'[r].response.status = 200) =>
          /\ req[r].pc = "send"
          /\ req'[r].sent # <<>>
    \* an answered request is not taken up again
    /\ req[r].pc = "done" => req'[r] = req[r]

\* C13: a failure aborts the conversion at once with a structured error and
\* no retry: an invalid request is answered with an error before any
\* converter step and before any file is written, and a handler sends an STL
\* only after the converter call of the same request returned without raising.
C13_FailureAborts ==
    /\ []InvalidAnsweredEarly
    /\ [][\A r \in Requests : AbortingStep(r)]_vars

C13_Witness ==
    \E r \in Requests, q \in Requests :
        /\ Invalid(r) /\ Answered(r, 400)
        /\ req[q].payload = Corrupt /\ Answered(q, 500)
        /\ req[q].sent = <<>>

\* C14: in the returned vertex sequence of an R x C grid the vertex at index
\* row*C+col is (col*cellSize, row*cellSize, grid[row][col]), the vertex at
\* index row*C+col + R*C has the same x and y and z = baseElevation, and every
\* index of every face lies in 0 .. 2*R*C-1.
C14_VertexLayout ==
    MeshReturned =>
        /\ Len(vertices) = 2 * Rows * Cols
        /\ \A row \in 0..(Rows - 1), col \in 0..(Cols - 1) :
              /\ Vtx(vertices, row * Cols + col)
                    = <<col * pixel_size, row * pixel_size, height_data.at[<<row, col>>]>>
              /\ Vtx(vertices, row * Cols + col + Rows * Cols)
                    = <<col * pixel_size, row * pixel_size, base_height>>
        /\ \A k \in FaceIdx : \A n \in 1..3 :
              faces[k][n] \in 0..(2 * Rows * Cols - 1)

C14_Witness ==
    /\ MeshReturned
    /\ Rows = 2
    /\ Cols = 3
    /\ pixel_size = 2
    /\ height_data.at[<<1, 2>>] # height_data.at[<<0, 0>>]
    /\ height_data.at[<<1, 2>>] # base_height
    /\ Len(faces) = 20

\* ------------------------------------------------------- separation readings
\* the image of one pixel of value v
OnePixel(v) == [rows |-> 1, cols |-> 1, at |-> [c \in {<<0, 0>>} |-> v]]

\* exactly one of the two material values is non-zero
ExactlyOne(a, b) == (a # 0 /\ b = 0) \/ (a = 0 /\ b # 0)

Separated == xpc \in {"bright", "dark", "return", "returned"}

\* C15: with the threshold 128, for every pixel value v in 0..255 exactly one
\* of the two material grids is non-zero at the pixel (A = v when v >= 128,
\* B = 255 - v when v < 128); hence convert returns at least one file for
\* every non-empty image, and the handler's first-file lookup finds a file.
C15_OneMaterialPerPixel ==
    /\ \A v \in 0..255 :
          LET a == Material1(OnePixel(v))[<<0, 0>>]
              b == Material2(OnePixel(v))[<<0, 0>>]
          IN  /\ ExactlyOne(a, b)
              /\ a = (IF v >= 128 THEN v ELSE 0)
              /\ b = (IF v < 128 THEN 255 - v ELSE 0)
    /\ Separated =>
          \A c \in DOMAIN img_array.at : ExactlyOne(mats[1][c], mats[2][c])
    /\ ConvertReturned =>
          /\ files # NoFiles
          /\ FirstFile(files) \in DOMAIN fs
          /\ FirstFile(files) \in {BrightPath, DarkPath}

C15_Witness ==
    /\ ConvertReturned
    /\ img_array.rows * img_array.cols = 2
    /\ \E c \in DOMAIN img_array.at : img_array.at[c] = 128
    /\ \E c \in DOMAIN img_array.at : img_array.at[c] = 127
    /\ FirstFile(files) = BrightPath
    /\ Len(files) = 2

\* C15, in the handler: send_file is never reached with an empty mapping
C15_LookupNeverEmpty ==
    \A r \in Requests :
        /\ req[r].pc = "send" => req[r].files # <<>>
        /\ (req[r].endpoint = "multi" /\ req[r].pc = "done" /\ req[r].files = <<>>)
              => req[r].response.status # 200

====
